---- MODULE Spec2Model ----
(***************************************************************************)
(* Model of app.py, the Bangkok PM2.5 Streamlit script.                    *)
(*                                                                         *)
(* A Streamlit script is executed top to bottom once per user interaction  *)
(* (a "run").  A run goes through initialize_ee, the boundary overlay, the *)
(* four map layer blocks, the map display and the three button handlers.   *)
(* The only thing that survives a run is the st.cache_resource entry of    *)
(* initialize_ee; the widgets (dates, checkboxes) keep their values.       *)
(*                                                                         *)
(* The Earth Engine service is the environment: it holds the image         *)
(* archive (catalog), it may be unavailable on any call, it may answer     *)
(* with a body that is not of the expected shape, and it may reject a date *)
(* range that is empty or inverted.                                        *)
(***************************************************************************)
EXTENDS Integers, Sequences, FiniteSets, TLC

\* ---------------------------------------------------------------- bounds
MaxImages == 2
MaxRuns == 3

\* ------------------------------------------------------- calendar dates
\* str(date) / image.date().format('YYYY-MM-dd') produce a calendar string,
\* modelled by its three fields <<year, month, day>>; pd.to_datetime and
\* the service's date parser turn it into a point on the time line
\* (days since 1970-01-01).
DaysFromCivil(c) ==
    LET y   == IF c[2] <= 2 THEN c[1] - 1 ELSE c[1]
        era == y \div 400
        yoe == y - era * 400
        mp  == IF c[2] > 2 THEN c[2] - 3 ELSE c[2] + 9
        doy == (153 * mp + 2) \div 5 + c[3] - 1
        doe == yoe * 365 + yoe \div 4 - yoe \div 100 + doy
    IN  era * 146097 + doe - 719468

CivilFromDays(n) ==
    LET z   == n + 719468
        era == z \div 146097
        doe == z - era * 146097
        yoe == (doe - doe \div 1460 + doe \div 36524 - doe \div 146096) \div 365
        doy == doe - (365 * yoe + yoe \div 4 - yoe \div 100)
        mp  == (5 * doy + 2) \div 153
        d   == doy - (153 * mp + 2) \div 5 + 1
        m   == IF mp < 10 THEN mp + 3 ELSE mp - 9
        y   == yoe + era * 400
    IN  << IF m <= 2 THEN y + 1 ELSE y, m, d >>

\* the dates the user can pick in the two st.date_input widgets
UIDates == { DaysFromCivil(<<2023, 12, 31>>), DaysFromCivil(<<2024, 1, 2>>) }

\* acquisition days of the granules the archive may hold
ImageDays == { DaysFromCivil(<<2023, 12, 31>>), DaysFromCivil(<<2024, 1, 1>>) }

\* regional mean AOD in tenths; NoValidPixels marks a granule whose region
\* is fully masked (reduceRegion yields null for it)
NoValidPixels == -1
AodValues == {0, 3}
Images == [day : ImageDays, aod : AodValues \cup {NoValidPixels}]

RECURSIVE SeqsUpTo(_, _)
SeqsUpTo(S, n) ==
    IF n = 0 THEN { <<>> }
    ELSE LET shorter == SeqsUpTo(S, n - 1)
         IN  shorter \cup { Append(s, x) : s \in shorter, x \in S }

Layers == {"AOD", "AerosolIndex", "NO2", "CO"}

VARIABLES
    \* widgets (lines 104-123)
    start_date, end_date, show,
    \* the service: content of the two archives the handlers read
    catalog, no2_catalog,
    \* the numpy build: whether its default argsort keeps ties in order
    stableSort,
    \* st.cache_resource entry of initialize_ee: <<>> or <<status, message>>
    eeCache,
    \* the current run
    pc, button, ee_status, ee_message, issued,
    layers, sidebar,
    tsResp, tsOutcome, df, csv,
    statsResp, statsOutcome, stats,
    \* observation of earlier runs
    runs, prevBuild, prevStats

widgetVars == <<start_date, end_date, show>>
serviceVars == <<catalog, no2_catalog, stableSort>>
mapVars == <<layers, sidebar>>
tsVars == <<tsResp, tsOutcome, df, csv>>
statsVars == <<statsResp, statsOutcome, stats>>
histVars == <<runs, prevBuild, prevStats>>
vars == <<widgetVars, serviceVars, eeCache, pc, button, ee_status, ee_message,
          issued, mapVars, tsVars, statsVars, histVars>>

\* ------------------------------------------------------------ initialize_ee
InitErrors == {"none", "Not signed up", "not registered", "EEException", "Exception"}

\* has_secret: 'ee_service_account' in st.secrets; initError: what the first
\* ee.Initialize raises; authError: whether Authenticate/Initialize raise
initialize_ee(has_secret, initError, authError) ==
    CASE initError = "none" ->
            IF has_secret
            THEN <<TRUE, "Earth Engine initialized with service account">>
            ELSE <<TRUE, "Earth Engine initialized successfully">>
      [] initError \in {"Not signed up", "not registered"} ->
            <<FALSE, "registration_required">>
      [] initError = "EEException" ->
            IF authError
            THEN <<FALSE, "Authentication failed">>
            ELSE <<TRUE, "Earth Engine initialized after authentication">>
      [] OTHER -> <<FALSE, "Initialization error">>

\* variant: st.stop() only in the registration branch
StopsRunOnlyRegistration(status, message) == ~status /\ message = "registration_required"

\* the script ends the run (st.stop) in both branches of "if not ee_status"
StopsRun(status, message) == ~status

\* --------------------------------------------------------------- the service
\* str(start_date), str(end_date) as sent to filterDate
DateStr(d) == CivilFromDays(d)

\* filterDate(start, end): start inclusive, end exclusive
RECURSIVE filterDate(_, _, _)
filterDate(coll, startStr, endStr) ==
    IF coll = <<>> THEN <<>>
    ELSE LET img  == Head(coll)
             rest == filterDate(Tail(coll), startStr, endStr)
         IN  IF DaysFromCivil(startStr) <= img.day /\ img.day < DaysFromCivil(endStr)
             THEN <<img>> \o rest
             ELSE rest

EmptyRange == DaysFromCivil(DateStr(start_date)) >= DaysFromCivil(DateStr(end_date))

\* what a query that carries the date filter can come back with: the
\* expected body, no answer (outage), a body of an unexpected shape, or,
\* for a range that holds no instant, a rejection of the range
QueryResponses ==
    IF EmptyRange
    THEN {"ok", "rejected", "unavailable", "malformed"}
    ELSE {"ok", "unavailable", "malformed"}

\* a call raises unless the service answered
Raises(resp) == resp \in {"rejected", "unavailable"}

\* get_daily_mean, evaluated by the service for one image; a null property
\* is not part of the returned feature
get_daily_mean(image) ==
    IF image.aod = NoValidPixels
    THEN [properties |-> [date |-> CivilFromDays(image.day)]]
    ELSE [properties |-> [date |-> CivilFromDays(image.day), aod |-> image.aod]]

\* aod_daily.map(get_daily_mean).getInfo()['features']
time_series_features ==
    LET aod_daily == filterDate(catalog, DateStr(start_date), DateStr(end_date))
    IN  [i \in 1..Len(aod_daily) |-> get_daily_mean(aod_daily[i])]

\* ------------------------------------------------- time series, local part
\* variant: "if props.get('aod'):", the truthiness test
HasAodTruthy(props) == "aod" \in DOMAIN props /\ props.aod # 0

\* props.get('aod') is not None
HasAod(props) == "aod" \in DOMAIN props

RECURSIVE df_list(_)
df_list(features) ==
    IF features = <<>> THEN <<>>
    ELSE LET props == Head(features).properties
         IN  IF HasAod(props)
             THEN <<[Date |-> props.date, AOD |-> props.aod]>> \o df_list(Tail(features))
             ELSE df_list(Tail(features))

\* variant: the frame of the previous click is kept and appended to
to_datetime_appending(rows) ==
    prevBuild.value \o
    [i \in 1..Len(rows) |-> [Date |-> DaysFromCivil(rows[i].Date), AOD |-> rows[i].AOD]]

\* df = pd.DataFrame(df_list); df['Date'] = pd.to_datetime(df['Date'])
to_datetime(rows) ==
    [i \in 1..Len(rows) |-> [Date |-> DaysFromCivil(rows[i].Date), AOD |-> rows[i].AOD]]

Reverse(s) == [i \in 1..Len(s) |-> s[Len(s) + 1 - i]]

\* insertion of a row after every row whose Date is not larger
RECURSIVE InsertByDate(_, _)
InsertByDate(sorted, row) ==
    IF sorted = <<>> THEN <<row>>
    ELSE IF Head(sorted).Date <= row.Date
         THEN <<Head(sorted)>> \o InsertByDate(Tail(sorted), row)
         ELSE <<row>> \o sorted

RECURSIVE StableSortByDate(_)
StableSortByDate(rows) ==
    IF rows = <<>> THEN <<>>
    ELSE InsertByDate(StableSortByDate(SubSeq(rows, 1, Len(rows) - 1)), rows[Len(rows)])

\* variant: the sort is left out
sort_values_omitted(rows) == rows

\* df.sort_values('Date'): kind defaults to 'quicksort', which orders by the
\* key and leaves the order of equal keys to the numpy build
sort_values(rows) ==
    IF stableSort THEN StableSortByDate(rows)
    ELSE StableSortByDate(Reverse(rows))

\* variant: to_csv(index=False, header=False)
to_csv_no_header(rows) ==
    [header |-> <<>>,
     lines  |-> [i \in 1..Len(rows) |-> <<CivilFromDays(rows[i].Date), rows[i].AOD>>]]

\* df.to_csv(index=False): the column names, then one line per row
to_csv(rows) ==
    [header |-> <<"Date", "AOD">>,
     lines  |-> [i \in 1..Len(rows) |-> <<CivilFromDays(rows[i].Date), rows[i].AOD>>]]

NoCsv == [header |-> <<>>, lines |-> <<>>]

\* ------------------------------------------------- statistics, service part
RECURSIVE ValidValues(_)
ValidValues(coll) ==
    IF coll = <<>> THEN <<>>
    ELSE IF Head(coll).aod = NoValidPixels THEN ValidValues(Tail(coll))
         ELSE <<Head(coll).aod>> \o ValidValues(Tail(coll))

RECURSIVE SumSeq(_)
SumSeq(s) == IF s = <<>> THEN 0 ELSE Head(s) + SumSeq(Tail(s))

SeqMax(s) == CHOOSE x \in {s[i] : i \in 1..Len(s)} : \A j \in 1..Len(s) : s[j] <= x
SeqMin(s) == CHOOSE x \in {s[i] : i \in 1..Len(s)} : \A j \in 1..Len(s) : x <= s[j]

StatNames == {"mean", "stdDev", "min", "max"}

\* collection.mean().reduceRegion(mean + stdDev + minMax).getInfo(): a
\* dictionary that has an entry only for a statistic that exists; the
\* composite of no valid pixel has none.  The composite is abstracted to the
\* regional values of its images, stdDev to their spread.
reduceRegionStats(coll) ==
    LET v == ValidValues(filterDate(coll, DateStr(start_date), DateStr(end_date)))
    IN  IF v = <<>> THEN [k \in {} |-> 0]
        ELSE [k \in StatNames |->
                CASE k = "mean" -> SumSeq(v) \div Len(v)
                  [] k = "min"  -> SeqMin(v)
                  [] k = "max"  -> SeqMax(v)
                  [] OTHER      -> SeqMax(v) - SeqMin(v)]

\* a dictionary that is not a statistics record
MalformedStats == [k \in {"unexpected"} |-> 0]

\* variant: the record is shown with 0 for a statistic it does not have
st_json_zero_fill(record) ==
    [k \in StatNames \cup DOMAIN record |-> IF k \in DOMAIN record THEN record[k] ELSE 0]

\* st.json(stats)
st_json(record) == record

\* ------------------------------------------------------------------- state
Buttons == {"none", "build", "aod_stats", "no2_stats"}
No2Catalogs == { <<>>, <<[day |-> DaysFromCivil(<<2023, 12, 31>>), aod |-> 3]>> }
NoStats == [k \in {} |-> 0]
NoPrev == [valid |-> FALSE, value |-> <<>>]

FreshRun ==
    /\ ee_status' = FALSE
    /\ ee_message' = ""
    /\ issued' = {}
    /\ layers' = <<>>
    /\ sidebar' = [l \in Layers |-> "none"]
    /\ tsResp' = "none" /\ tsOutcome' = "none" /\ df' = <<>> /\ csv' = NoCsv
    /\ statsResp' = "none" /\ statsOutcome' = "none" /\ stats' = NoStats

\* the checkboxes as the script creates them (value=True / value=False)
DefaultShow == [l \in Layers |-> l = "AOD"]

InitRun ==
    /\ start_date \in UIDates
    /\ end_date \in UIDates
    /\ stableSort \in BOOLEAN
    /\ eeCache = <<>>
    /\ pc = "init"
    /\ button = "none"
    /\ ee_status = FALSE
    /\ ee_message = ""
    /\ issued = {}
    /\ layers = <<>>
    /\ sidebar = [l \in Layers |-> "none"]
    /\ tsResp = "none" /\ tsOutcome = "none" /\ df = <<>> /\ csv = NoCsv
    /\ statsResp = "none" /\ statsOutcome = "none" /\ stats = NoStats
    /\ runs = 1
    /\ prevBuild = NoPrev
    /\ prevStats = NoPrev

\* the page as first loaded, over every content of the AOD archive
Init ==
    /\ show = DefaultShow
    /\ catalog \in SeqsUpTo(Images, MaxImages)
    /\ no2_catalog = <<>>
    /\ InitRun

\* every choice of the four checkboxes, over an AOD archive without granules
MapInit ==
    /\ show \in [Layers -> BOOLEAN]
    /\ catalog = <<>>
    /\ no2_catalog \in No2Catalogs
    /\ InitRun

\* ----------------------------------------------------------------- actions
\* line 47: ee_status, ee_message = initialize_ee(), through st.cache_resource
CallInitializeEE ==
    /\ pc = "init"
    /\ IF eeCache # <<>>
       THEN /\ ee_status' = eeCache[1]
            /\ ee_message' = eeCache[2]
            /\ UNCHANGED eeCache
       ELSE \E has_secret \in BOOLEAN, initError \in InitErrors, authError \in BOOLEAN :
              LET r == initialize_ee(has_secret, initError, authError)
              IN  /\ eeCache' = r
                  /\ ee_status' = r[1]
                  /\ ee_message' = r[2]
    /\ pc' = "check"
    /\ UNCHANGED <<widgetVars, serviceVars, button, issued, mapVars, tsVars,
                   statsVars, histVars>>

\* lines 50-93
CheckStatus ==
    /\ pc = "check"
    /\ pc' = IF StopsRun(ee_status, ee_message) THEN "stopped" ELSE "boundary"
    /\ UNCHANGED <<widgetVars, serviceVars, eeCache, button, ee_status, ee_message,
                   issued, mapVars, tsVars, statsVars, histVars>>

\* lines 138-150: BANGKOK_BOUNDS.getInfo() is outside any try
AddBoundary ==
    /\ pc = "boundary"
    /\ issued' = issued \cup {"boundary"}
    /\ \E resp \in {"ok", "unavailable"} :
         pc' = IF Raises(resp) THEN "crashed" ELSE "AOD"
    /\ UNCHANGED <<widgetVars, serviceVars, eeCache, button, ee_status, ee_message,
                   mapVars, tsVars, statsVars, histVars>>

\* what a layer block leaves in the sidebar when its try block raises or not
LayerReport(raised) == IF raised THEN "warning" ELSE "success"

\* one "if show_x: try ... except" block; the query is the getMapId of
\* m.addLayer
LayerBlock(l, next) ==
    /\ pc = l
    /\ pc' = next
    /\ IF show[l]
       THEN /\ issued' = issued \cup {l}
            /\ \E resp \in QueryResponses \ {"malformed"} :
                 /\ layers' = IF Raises(resp) THEN layers ELSE Append(layers, l)
                 /\ sidebar' = [sidebar EXCEPT ![l] = LayerReport(Raises(resp))]
       ELSE UNCHANGED <<issued, layers, sidebar>>
    /\ UNCHANGED <<widgetVars, serviceVars, eeCache, button, ee_status, ee_message,
                   tsVars, statsVars, histVars>>

\* lines 153-169
AddAOD == LayerBlock("AOD", "AerosolIndex")
\* lines 172-188
AddAerosolIndex == LayerBlock("AerosolIndex", "NO2")
\* lines 191-207
AddNO2 == LayerBlock("NO2", "CO")
\* lines 210-226
AddCO == LayerBlock("CO", "display")

\* lines 229-232
DisplayMap ==
    /\ pc = "display"
    /\ pc' = "timeseries"
    /\ UNCHANGED <<widgetVars, serviceVars, eeCache, button, ee_status, ee_message,
                   issued, mapVars, tsVars, statsVars, histVars>>

\* lines 237-326
GenerateTimeSeries ==
    /\ pc = "timeseries"
    /\ pc' = "aod_stats"
    /\ IF button = "build"
       THEN /\ issued' = issued \cup {"timeseries"}
            /\ \E resp \in QueryResponses :
                 /\ tsResp' = resp
                 /\ IF resp # "ok"
                    THEN \* getInfo raised, or time_series['features'] did
                         /\ tsOutcome' = "error"
                         /\ UNCHANGED <<df, csv>>
                    ELSE LET rows == df_list(time_series_features)
                         IN  IF rows # <<>>
                             THEN /\ df' = sort_values(to_datetime(rows))
                                  /\ csv' = to_csv(sort_values(to_datetime(rows)))
                                  /\ tsOutcome' = "chart"
                             ELSE /\ tsOutcome' = "nodata"
                                  /\ UNCHANGED <<df, csv>>
       ELSE UNCHANGED <<issued, tsVars>>
    /\ UNCHANGED <<widgetVars, serviceVars, eeCache, button, ee_status, ee_message,
                   mapVars, statsVars, histVars>>

StatisticsHandler(which, coll, next) ==
    /\ pc = which
    /\ pc' = next
    /\ IF button = which
       THEN /\ issued' = issued \cup {which}
            /\ \E resp \in QueryResponses :
                 /\ statsResp' = resp
                 /\ IF Raises(resp)
                    THEN /\ statsOutcome' = "error"
                         /\ UNCHANGED stats
                    ELSE /\ statsOutcome' = "success"
                         /\ stats' = st_json(IF resp = "ok" THEN reduceRegionStats(coll)
                                             ELSE MalformedStats)
       ELSE UNCHANGED <<issued, statsVars>>
    /\ UNCHANGED <<widgetVars, serviceVars, eeCache, button, ee_status, ee_message,
                   mapVars, tsVars, histVars>>

\* lines 333-355
CalculateAODStatistics == StatisticsHandler("aod_stats", catalog, "no2_stats")
\* lines 358-380
CalculateNO2Statistics == StatisticsHandler("no2_stats", no2_catalog, "done")

RunEnded == pc \in {"done", "stopped", "crashed"}

\* the user interacts with the page and Streamlit runs the script again; a
\* button exists only on a page that was rendered to the end
Rerun ==
    /\ RunEnded
    /\ runs < MaxRuns
    /\ runs' = runs + 1
    /\ button' \in (IF pc = "done" THEN Buttons ELSE {"none"})
    /\ pc' = "init"
    /\ prevBuild' = IF tsOutcome \in {"chart", "nodata"}
                    THEN [valid |-> TRUE, value |-> df] ELSE prevBuild
    /\ prevStats' = IF statsResp = "ok" /\ button = "aod_stats"
                    THEN [valid |-> TRUE, value |-> stats] ELSE prevStats
    /\ FreshRun
    /\ UNCHANGED <<widgetVars, serviceVars, eeCache>>

\* the archive ingests a granule between two runs, before the next one starts
Ingest ==
    /\ pc = "init"
    /\ Len(catalog) < MaxImages
    /\ \E img \in Images : catalog' = Append(catalog, img)
    /\ prevBuild' = NoPrev
    /\ prevStats' = NoPrev
    /\ UNCHANGED <<widgetVars, no2_catalog, stableSort, eeCache,
                   pc, button, ee_status, ee_message, issued, mapVars, tsVars,
                   statsVars, runs>>

Next ==
    \/ CallInitializeEE
    \/ CheckStatus
    \/ AddBoundary
    \/ AddAOD
    \/ AddAerosolIndex
    \/ AddNO2
    \/ AddCO
    \/ DisplayMap
    \/ GenerateTimeSeries
    \/ CalculateAODStatistics
    \/ CalculateNO2Statistics
    \/ Rerun
    \/ Ingest

Spec == Init /\ [][Next]_vars

MapNext ==
    \/ CallInitializeEE
    \/ CheckStatus
    \/ AddBoundary
    \/ AddAOD
    \/ AddAerosolIndex
    \/ AddNO2
    \/ AddCO
    \/ DisplayMap
    \/ GenerateTimeSeries
    \/ CalculateAODStatistics
    \/ CalculateNO2Statistics
    \/ Rerun

MapSpec == MapInit /\ [][MapNext]_vars

\* ------------------------------------------------------------ properties
\* what the handlers of the current run were given
FilteredAOD == filterDate(catalog, DateStr(start_date), DateStr(end_date))
BuildReturned == tsOutcome \in {"chart", "nodata"}
CountRows(rows, day, v) ==
    Cardinality({i \in 1..Len(rows) : rows[i].Date = day /\ rows[i].AOD = v})
CountImages(coll, day, v) ==
    Cardinality({i \in 1..Len(coll) : coll[i].day = day /\ coll[i].aod = v})

\* C1: for a date range with start <= end, the rows of the TimeSeries built by
\* the Generate AOD Time Series handler have non-decreasing dates.
C1_Monotone ==
    start_date <= end_date =>
        \A i \in 1..(Len(df) - 1) : df[i].Date <= df[i + 1].Date

\* the archive returned a later granule before an earlier one and both are rows
C1_Witness ==
    /\ tsOutcome = "chart"
    /\ start_date <= end_date
    /\ Len(FilteredAOD) = 2
    /\ FilteredAOD[1].day > FilteredAOD[2].day
    /\ Len(df) = 2
    /\ df[1].Date < df[2].Date

\* C2: for a date range with start > end, a build that the service answered
\* (whether it accepts or rejects the inverted range) ends with an empty
\* TimeSeries in the no-data outcome, not in the error outcome.
C2_InvertedRangeIsNoData ==
    (start_date > end_date /\ tsResp \in {"ok", "rejected"}) =>
        (tsOutcome = "nodata" /\ df = <<>>)

\* C3: when the filtered collection has no image, a build that got its
\* answer ends in the no-data outcome with an empty TimeSeries and a
\* statistics handler that got its answer shows a record without any of the
\* four statistics (none is shown as 0); neither ends in the error outcome.
C3_ZeroImages ==
    /\ (tsResp = "ok" /\ FilteredAOD = <<>>) =>
          (tsOutcome = "nodata" /\ df = <<>>)
    /\ (statsResp = "ok" /\ button = "aod_stats" /\ FilteredAOD = <<>>) =>
          (statsOutcome = "success" /\ DOMAIN stats \cap StatNames = {})
    /\ (statsResp = "ok" /\ button = "no2_stats"
          /\ filterDate(no2_catalog, DateStr(start_date), DateStr(end_date)) = <<>>) =>
          (statsOutcome = "success" /\ DOMAIN stats \cap StatNames = {})

\* statistics over zero images, after a build over the same zero images
C3_Witness ==
    /\ FilteredAOD = <<>>
    /\ button = "aod_stats"
    /\ statsResp = "ok"
    /\ statsOutcome = "success"
    /\ prevBuild.valid
    /\ prevBuild.value = <<>>

\* C4: in a run that got past initialization, every active layer ends up
\* either on the map or reported under its own name, whatever calls failed:
\* an active layer is on the map exactly when its own query succeeded.
C4_LayersIndependent ==
    pc \in {"done", "crashed"} =>
        \A l \in Layers :
            show[l] => /\ sidebar[l] \in {"success", "warning"}
                       /\ (sidebar[l] = "success") <=> (\E i \in 1..Len(layers) : layers[i] = l)

\* C5: the TimeSeries has one row per image of the filtered collection whose
\* regional mean is present (same-day images each keep their row), none for
\* an image without a value, and no row without a value.
C5_ExactlyPresentSamples ==
    BuildReturned =>
        /\ \A i \in 1..Len(df) : df[i].Date \in ImageDays /\ df[i].AOD \in AodValues
        /\ \A day \in ImageDays : \A v \in AodValues :
              CountRows(df, day, v) = CountImages(FilteredAOD, day, v)

\* a masked granule was dropped and a granule of value 0 was kept
C5_Witness ==
    /\ tsOutcome = "chart"
    /\ \E i \in 1..Len(FilteredAOD) : FilteredAOD[i].aod = NoValidPixels
    /\ \E i \in 1..Len(df) : df[i].AOD = 0

\* C6: rows that share a date are in the TimeSeries in the order their images
\* have in the collection the service returned.
C6_StableSort ==
    tsOutcome = "chart" =>
        \A day \in ImageDays :
            LET SameDay(r) == r.Date = day
            IN  SelectSeq(df, SameDay)
                  = SelectSeq(to_datetime(df_list(time_series_features)), SameDay)

\* C7: a handler whose query was answered with the expected body never ends
\* in the error outcome, and a handler whose query failed or was answered
\* with a body of unexpected shape ends in the error outcome.
C7_NoDataIsNotFailure ==
    /\ tsResp = "ok" => tsOutcome \in {"chart", "nodata"}
    /\ tsResp \in {"unavailable", "rejected", "malformed"} => tsOutcome = "error"
    /\ statsResp = "ok" => statsOutcome = "success"
    /\ statsResp \in {"unavailable", "rejected", "malformed"} => statsOutcome = "error"

\* the export consists of the header and one line per row, in row order, each
\* with the date string and value of its row
CsvOfRows ==
    /\ csv.header = <<"Date", "AOD">>
    /\ Len(csv.lines) = Len(df)
    /\ \A i \in 1..Len(df) :
          /\ DaysFromCivil(csv.lines[i][1]) = df[i].Date
          /\ \E j \in 1..Len(time_series_features) :
                csv.lines[i][1] = time_series_features[j].properties.date
          /\ csv.lines[i][2] = df[i].AOD

\* C8 as stated: an empty TimeSeries is exported as a header-only file, a
\* non-empty one as the header followed by one line per row.
C8_EmptyExportIsHeaderOnly ==
    /\ tsOutcome = "nodata" => (csv.header = <<"Date", "AOD">> /\ csv.lines = <<>>)
    /\ tsOutcome = "chart" => CsvOfRows

\* C8 amended: when the build yields no sample no export is offered; a
\* non-empty TimeSeries is exported as the header Date,AOD followed by one
\* line per row in TimeSeries order.
C8_Export ==
    /\ tsOutcome = "nodata" => csv = NoCsv
    /\ tsOutcome = "chart" => CsvOfRows

C8_Witness ==
    /\ tsOutcome = "chart"
    /\ Len(csv.lines) = 2
    /\ csv.lines[1][1] # csv.lines[2][1]

\* C9: a build (an AOD statistics query) that follows an earlier one with the
\* same inputs and no change of the archive in between returns the same
\* TimeSeries (the same record).
C9_Repeatable ==
    /\ (BuildReturned /\ prevBuild.valid) => df = prevBuild.value
    /\ (button = "aod_stats" /\ statsResp = "ok" /\ prevStats.valid) =>
           stats = prevStats.value

\* a second build of a two-row TimeSeries, after statistics were computed too
C9_Witness ==
    /\ tsOutcome = "chart"
    /\ prevBuild.valid
    /\ Len(df) = 2

\* C10: a query is issued only in a run in which initialize_ee returned
\* success, and a run in which it returned failure stops before any query.
C10_QueriesNeedInitialization ==
    /\ issued # {} => (ee_status /\ eeCache # <<>> /\ eeCache[1])
    /\ (pc \notin {"init", "check"} /\ ~ee_status) => (pc = "stopped" /\ issued = {})

\* a run stopped on a failure other than the missing registration
C10_Witness ==
    /\ pc = "stopped"
    /\ ee_message = "Authentication failed"
    /\ issued = {}
    /\ runs > 1

====
